---- MODULE Spec2Model ----
(***************************************************************************)
(* Model of the PocketStation name-table relocation tool                   *)
(* (src/tools/rom_names.py) and of the generic patch applier               *)
(* (src/tools/rom_patches.py).                                             *)
(*                                                                         *)
(* Conventions.  A byte image is a sequence of integers 0..255; Python's    *)
(* 0-based address a is the TLA+ index a+1.  A character is its Unicode    *)
(* code point, so ord(ch) = ch, and a name is a sequence of code points.   *)
(* The manifest is modelled after JSON decoding and after parseHexInt: an  *)
(* address or a remap code is the integer the parser returns.              *)
(*                                                                         *)
(* Two program constants are scaled down so that the reachable states stay *)
(* enumerable: EXPECTED_CARD_COUNT (722 in the source) and BLOCK_SIZE      *)
(* (0x2000 in the source).  Byte, 16-bit and 32-bit widths are kept.       *)
(*                                                                         *)
(* Each main is a sequence of steps, one action each; pc is the position   *)
(* in main, "failed" after an exception (err names it), "dry" after the    *)
(* return of --dry-run, "done" after the write-back.  file is the content  *)
(* of the file on disk, rom the bytearray in memory.  Left out: the        *)
(* --verbose branch of rom_names.py, which prints and changes nothing; a   *)
(* file or manifest that cannot be read; the older, fixed-layout tool      *)
(* src/YGOFM-NamePatch.py.                                                 *)
(*                                                                         *)
(* Specifications.  Of rom_names.py: Spec; SpecLong, on names long enough  *)
(* for offsets above 0xFFFF; SpecOverlap, on manifests whose regions       *)
(* overlap; SpecBounds, on manifests whose pointer field lies beyond the   *)
(* image; SpecNegative, on a manifest with a negative name table address;  *)
(* SpecPlan, on files of any length, with and without --dry-run;           *)
(* SpecRerun, the same with a second run on the file the first one wrote.  *)
(* SpecEncode: encodeName called on its own, strict or not.  SpecPatches:  *)
(* rom_patches.py.                                                         *)
(***************************************************************************)
EXTENDS Integers, Sequences, FiniteSets, TLC

VARIABLES pc, file, rom, args, err,   \* both tools
          cardsJson, planned,         \* rom_names.py
          manifest, entryIdx, total,  \* rom_patches.py
          invocation                  \* the number of the run: 1 or 2

\* the variables that only rom_names.py uses
nameVars == <<cardsJson, planned>>

\* the variables that only rom_patches.py uses
patchVars == <<manifest, entryIdx, total>>

vars == <<pc, file, rom, args, err, cardsJson, planned, manifest, entryIdx,
          total, invocation>>

(***************************************************************************)
(* Program constants (rom_names.py).                                       *)
(***************************************************************************)
POCKETSTATION_MEM_BASE == 33554432

TITLE_BLOCK_COUNT_OFFSET == 3

BLOCK_SIZE == 8

EXPECTED_CARD_COUNT == 3

NAME_MARKER == <<250, 33>>

CARD_ENTRY_SIZE == 6

CARD_INDEX_HEADER_SIZE == 4

MCS_BASE_OFFSET == 128

\* the fill byte of the table padding and of image extension
FILL_BYTE == 255

\* An optional value (a JSON key that may be absent, an argument that may
\* not be given) is a sequence: <<>> when absent, <<v>> when present.
Absent == <<>>

Some(v) == <<v>>

IsAbsent(o) == Len(o) = 0

Get(o) == o[1]

(***************************************************************************)
(* Bounds of the model.                                                    *)
(***************************************************************************)
\* the base offset given with --offset
CustomOffset == 16

\* the lengths of the files a run starts from: empty, shorter than the
\* record table, ..., 255 blocks, 256 blocks
FileLengths == {0, 40, 64, 255 * BLOCK_SIZE, 256 * BLOCK_SIZE}

\* the most entries a patch list has
MaxPatches == 2

\* the lengths of the files the generic patcher starts from
PatchFileLengths == {8, 24}

\* the most characters of a name handed to encodeName on its own
MaxNameLen == 3

\* the lengths of the long first name: the offsets of the later names end
\* at 0xFFFF, cross it, or lie beyond it
LongNameLengths == {65531, 65532, 65534}

(***************************************************************************)
(* Python primitives.                                                      *)
(***************************************************************************)
\* The sequence a function on 1..n stands for, in TLC's tuple form: an
\* element of a tuple is read in constant time.
AsSeq(f) == f \o <<>>

\* b'\xNN' * n
Repeat(b, n) == AsSeq([i \in 1..n |-> b])

Max(a, b) == IF a >= b THEN a ELSE b

\* seq[a:b] for 0 <= a <= b <= len(seq)
Slice(seq, a, b) == AsSeq([i \in 1..(b - a) |-> seq[a + i]])

\* the index a Python slice bound denotes in a sequence of length n
ClampIndex(i, n) == IF i < 0 THEN Max(i + n, 0) ELSE IF i > n THEN n ELSE i

\* bytearray slice assignment  seq[a:b] = data
SliceAssign(seq, a, b, data) ==
    LET n  == Len(seq)
        lo == ClampIndex(a, n)
        hi == Max(ClampIndex(b, n), lo)
    IN  Slice(seq, 0, lo) \o data \o Slice(seq, hi, n)

\* does bytearray item assignment  seq[i] = v  raise IndexError?
IndexOutOfRange(seq, i) == i >= Len(seq) \/ i < -Len(seq)

\* bytearray item assignment  seq[i] = v  (negative i counts from the end)
SetItem(seq, i, v) ==
    LET k == IF i < 0 THEN i + Len(seq) ELSE i
    IN  [seq EXCEPT ![k + 1] = v]

\* the byte at 0-based address a
ByteAt(seq, a) == seq[a + 1]

(***************************************************************************)
(* buildRemapTable: later entries of the remap list replace earlier ones;  *)
(* an entry without "hex" is skipped.  The result is a function from the   *)
(* mapped code points to their codes.  A key that is not one character    *)
(* (the default '' included) is the code point -1, which no name contains. *)
(***************************************************************************)
RECURSIVE RemapFold(_, _, _)
RemapFold(remapList, i, table) ==
    IF i > Len(remapList) THEN table
    ELSE LET entry == remapList[i]
         IN  IF IsAbsent(entry.hex)
             THEN RemapFold(remapList, i + 1, table)
             ELSE RemapFold(remapList, i + 1,
                     [c \in DOMAIN table \cup {entry.unicode} |->
                         IF c = entry.unicode THEN Get(entry.hex)
                                              ELSE table[c]])

buildRemapTable(json) == RemapFold(json.remap, 1, <<>>)

(***************************************************************************)
(* normalizeName: nine punctuation variants are replaced by ASCII.         *)
(***************************************************************************)
Replacement(ch) ==
    CASE ch = 8217  -> 39      \* right single quote -> '
      [] ch = 8216  -> 39      \* left single quote  -> '
      [] ch = 8220  -> 34      \* left double quote  -> "
      [] ch = 8221  -> 34      \* right double quote -> "
      [] ch = 8211  -> 45      \* en dash -> -
      [] ch = 8212  -> 45      \* em dash -> -
      [] ch = 65283 -> 35      \* fullwidth number sign -> #
      [] ch = 8470  -> 35      \* numero sign -> #
      [] ch = 12288 -> 32      \* ideographic space -> space
      [] OTHER      -> ch

normalizeName(name) ==
    AsSeq([i \in 1..Len(name) |-> Replacement(name[i])])

(***************************************************************************)
(* encodeName.  The result is a record: kind "ok" with the code bytes in   *)
(* out; kind "unmapped" (the ValueError of line 110) with the report in    *)
(* missing, a function from each unmapped character to its count; kind     *)
(* "range" when bytearray.append is handed a code outside 0..255.          *)
(***************************************************************************)
\* mutant: the report names the first unmapped character only, once
MissingFirstOnly(nm, table) ==
    LET first == CHOOSE i \in 1..Len(nm) :
                    /\ nm[i] \notin DOMAIN table
                    /\ \A j \in 1..(i - 1) : nm[j] \in DOMAIN table
    IN  [ch \in {nm[first]} |-> 1]

\* lines 98-104, strict: the report the scan has gathered when it ends, a
\* function from each unmapped character of nm to the number of its
\* occurrences
Missing(nm, table) ==
    [ch \in {nm[i] : i \in {j \in 1..Len(nm) : nm[j] \notin DOMAIN table}} |->
        Cardinality({i \in 1..Len(nm) : nm[i] = ch})]

\* mutant: every unmapped character becomes a space
PlaceholderAlwaysSpace(ch) == 32

\* lines 106-107, not strict: the code appended for an unmapped character
PlaceholderCode(ch) == IF 32 <= ch /\ ch <= 126 THEN ch ELSE 32

\* lines 97-111: the scan of the normalised name
EncodeNormalized(nm, table, strict) ==
    LET Mapped(ch) == ch \in DOMAIN table
        Code(ch) == IF Mapped(ch) THEN table[ch] ELSE PlaceholderCode(ch)
        badRange == \E i \in 1..Len(nm) :
                       Mapped(nm[i]) /\ (table[nm[i]] < 0 \/ table[nm[i]] > 255)
        missChars == {nm[i] : i \in {j \in 1..Len(nm) : ~Mapped(nm[j])}}
        kept     == IF strict THEN SelectSeq(nm, Mapped) ELSE nm
        out      == AsSeq([i \in 1..Len(kept) |-> Code(kept[i])])
    IN  IF badRange THEN [kind |-> "range", out |-> <<>>, missing |-> <<>>]
        ELSE IF strict /\ missChars # {}
        THEN [kind |-> "unmapped", out |-> <<>>,
              missing |-> Missing(nm, table)]
        ELSE [kind |-> "ok", out |-> out, missing |-> <<>>]

\* mutant: the name is looked up without normalisation
encodeNameNoNormalize(name, table, strict) ==
    EncodeNormalized(name, table, strict)

encodeName(name, table, strict) ==
    EncodeNormalized(normalizeName(name), table, strict)

(***************************************************************************)
(* buildNameBlobAndOffsets.  The loop over the names carries the buffer    *)
(* and the offsets array (EXPECTED_CARD_COUNT zeros to start with); the    *)
(* padding to the block boundary follows the loop.                         *)
(***************************************************************************)
\* mutant: a whole block of padding when the buffer is already aligned
PadLenFullBlock(n) == BLOCK_SIZE - (n % BLOCK_SIZE)

\* (-n) % BLOCK_SIZE
PadLen(n) == (BLOCK_SIZE - (n % BLOCK_SIZE)) % BLOCK_SIZE

\* mutant: record 0 gets its name's start like every other record
RecordOffsetNoSpecialCase(offsets, i, start) ==
    [offsets EXCEPT ![i + 1] = start]

\* lines 125-126: the offset of record i (0-based); record 0 keeps 0
RecordOffset(offsets, i, start) ==
    IF i > 0 THEN [offsets EXCEPT ![i + 1] = start] ELSE offsets

RECURSIVE BlobLoop(_, _, _, _, _)
BlobLoop(nms, table, i, buf, offsets) ==
    IF i >= Len(nms) THEN [kind |-> "ok", buf |-> buf, offsets |-> offsets]
    ELSE LET start == Len(buf)
             enc   == encodeName(nms[i + 1], table, TRUE)
         IN  IF i > 0 /\ i >= Len(offsets)
             THEN [kind |-> "index", buf |-> buf, offsets |-> offsets]
             ELSE IF enc.kind # "ok"
             THEN [kind |-> enc.kind, buf |-> buf, offsets |-> offsets]
             ELSE BlobLoop(nms, table, i + 1, buf \o enc.out \o <<0>>,
                           RecordOffset(offsets, i, start))

\* the buffer and offsets after the loop, before padding
UnpaddedBlob(nms, table) ==
    BlobLoop(nms, table, 0, NAME_MARKER, Repeat(0, EXPECTED_CARD_COUNT))

\* mutant: the padding is zero bytes
PadBlobZeros(buf) == buf \o Repeat(0, PadLen(Len(buf)))

PadBlob(buf) == buf \o Repeat(FILL_BYTE, PadLen(Len(buf)))

buildNameBlobAndOffsets(nms, table) ==
    LET r == UnpaddedBlob(nms, table)
    IN  IF r.kind # "ok" THEN [kind |-> r.kind, blob |-> <<>>, offsets |-> <<>>]
        ELSE [kind |-> "ok", blob |-> PadBlob(r.buf), offsets |-> r.offsets]

(***************************************************************************)
(* The image helpers of rom_names.py.                                      *)
(***************************************************************************)
computeBlockCount(effectiveSize) ==
    (effectiveSize + BLOCK_SIZE - 1) \div BLOCK_SIZE

\* mutant: an image that is too short is extended one byte too far
ensureRomSizeOneMore(image, requiredSize) ==
    IF Len(image) < requiredSize
    THEN image \o Repeat(FILL_BYTE, requiredSize + 1 - Len(image))
    ELSE image

ensureRomSize(image, requiredSize) ==
    IF Len(image) < requiredSize
    THEN image \o Repeat(FILL_BYTE, requiredSize - Len(image))
    ELSE image

\* mutant: the table is inserted at fileAt, the bytes behind it move up
injectBlobInserting(image, fileAt, data) ==
    LET end == fileAt + Len(data)
    IN  SliceAssign(ensureRomSize(image, end), fileAt, fileAt, data)

injectBlob(image, fileAt, data) ==
    LET end == fileAt + Len(data)
    IN  SliceAssign(ensureRomSize(image, end), fileAt, end, data)

\* One item assignment of a patcher: the image after it, or the IndexError.
\* A step is a record [ok, image]; a step that has failed stays failed.
\* mutant: an assignment beyond the end extends the image with fill bytes
StoreExtending(step, pos, v) ==
    IF ~step.ok THEN step
    ELSE [ok |-> TRUE,
          image |-> SetItem(ensureRomSize(step.image, pos + 1), pos, v)]

Store(step, pos, v) ==
    IF ~step.ok THEN step
    ELSE IF IndexOutOfRange(step.image, pos) THEN [ok |-> FALSE, image |-> step.image]
    ELSE [ok |-> TRUE, image |-> SetItem(step.image, pos, v)]

\* val & 0xFF  and  (val >> 8) & 0xFF, ... : byte k of val, little-endian
ByteOf(val, k) == (val \div (256 ^ k)) % 256

\* val & 0xFFFF
Mask16(val) == val % 65536

RECURSIVE IndexLoop(_, _, _, _)
IndexLoop(step, fileFirstCardOffset, offsets, i) ==
    IF i >= EXPECTED_CARD_COUNT \/ ~step.ok THEN step
    ELSE LET entryBase  == fileFirstCardOffset + (i * CARD_ENTRY_SIZE)
             nameOffPos == entryBase + 4
         IN  IF i >= Len(offsets) THEN [ok |-> FALSE, image |-> step.image]
             ELSE LET val == Mask16(offsets[i + 1])
                      s1  == Store(step, nameOffPos, ByteOf(val, 0))
                      s2  == Store(s1, nameOffPos + 1, ByteOf(val, 1))
                  IN  IndexLoop(s2, fileFirstCardOffset, offsets, i + 1)

patchCardIndexNameOffsets(image, fileFirstCardOffset, offsets) ==
    IndexLoop([ok |-> TRUE, image |-> image], fileFirstCardOffset, offsets, 0)

\* lines 166-169: the four item assignments of the pointer
StorePointer(image, at, ptr) ==
    LET s0 == Store([ok |-> TRUE, image |-> image], at + 0, ByteOf(ptr, 0))
        s1 == Store(s0, at + 1, ByteOf(ptr, 1))
        s2 == Store(s1, at + 2, ByteOf(ptr, 2))
    IN  Store(s2, at + 3, ByteOf(ptr, 3))

\* mutant: the pointer is given the file address of the table, which counts
\* the container header in
setCardNamePointerFileAddress(image, at, nameRomOffset) ==
    StorePointer(image, at,
                 POCKETSTATION_MEM_BASE
                     + (at - Get(cardsJson.card_lookup_address)) + nameRomOffset)

setCardNamePointer(image, at, nameRomOffset) ==
    StorePointer(image, at, POCKETSTATION_MEM_BASE + nameRomOffset)

\* mutant: the block count is added to the byte that the header holds
updateBlockCountHeaderAdding(image, fileHeaderBlockCountPos, effectiveSize) ==
    LET newBlocks == computeBlockCount(effectiveSize)
    IN  IF IndexOutOfRange(image, fileHeaderBlockCountPos)
        THEN [ok |-> FALSE, image |-> image]
        ELSE Store([ok |-> TRUE, image |-> image], fileHeaderBlockCountPos,
                   (ByteAt(image, fileHeaderBlockCountPos) + newBlocks) % 256)

\* the image after the header byte is stored, or the IndexError; the
\* function's return value is computeBlockCount(effectiveSize)
updateBlockCountHeader(image, fileHeaderBlockCountPos, effectiveSize) ==
    LET newBlocks == computeBlockCount(effectiveSize)
    IN  Store([ok |-> TRUE, image |-> image],
              fileHeaderBlockCountPos, newBlocks % 256)

(***************************************************************************)
(* loadLanguageNames: the items of the language list are folded into a     *)
(* dictionary by number (a later item replaces an earlier one), then the   *)
(* names of 1..EXPECTED_CARD_COUNT are read off in order.                  *)
(***************************************************************************)
RECURSIVE ByNumFold(_, _, _)
ByNumFold(items, i, byNum) ==
    IF i > Len(items) THEN byNum
    ELSE ByNumFold(items, i + 1,
            [n \in DOMAIN byNum \cup {items[i].number} |->
                IF n = items[i].number THEN items[i].name ELSE byNum[n]])

loadLanguageNames(json, language) ==
    IF language \notin DOMAIN json.langs
    THEN [kind |-> "KeyError", names |-> <<>>]
    ELSE LET byNum == ByNumFold(json.langs[language], 1, <<>>)
         IN  IF \E num \in 1..EXPECTED_CARD_COUNT : num \notin DOMAIN byNum
             THEN [kind |-> "ValueError", names |-> <<>>]
             ELSE [kind |-> "ok",
                   names |-> AsSeq([num \in 1..EXPECTED_CARD_COUNT |->
                                       byNum[num]])]

(***************************************************************************)
(* main of rom_names.py: the values it computes from the arguments and     *)
(* the manifest.  The manifest and the arguments never change, so the      *)
(* remap table, the names, the name table and the offsets are functions of *)
(* them; pc tells which of them main has computed so far.                  *)
(***************************************************************************)
\* line 265
remap == buildRemapTable(cardsJson)

\* line 266
names == loadLanguageNames(cardsJson, args.language).names

\* line 269
blob == buildNameBlobAndOffsets(names, remap).blob

\* line 269
nameOffsets == buildNameBlobAndOffsets(names, remap).offsets

baseOffset ==
    IF args.raw THEN 0
    ELSE IF args.mcs THEN MCS_BASE_OFFSET
    ELSE IF ~IsAbsent(args.offset) THEN Get(args.offset)
    ELSE 0

cardIndexRomOffset == Get(cardsJson.card_index_offset)

cardNameRomOffset == Get(cardsJson.card_name_offset)

cardLookupRomAddr == Get(cardsJson.card_lookup_address)

fileCardIndexOffset == baseOffset + cardIndexRomOffset

fileFirstCardOffset == fileCardIndexOffset + CARD_INDEX_HEADER_SIZE

fileCardNameOffset == baseOffset + cardNameRomOffset

filePointerOffset == baseOffset + cardLookupRomAddr

fileBlockCountPos == baseOffset + TITLE_BLOCK_COUNT_OFFSET

Fail(kind) ==
    /\ pc' = "failed"
    /\ err' = kind

(***************************************************************************)
(* main of rom_names.py, step by step.                                     *)
(***************************************************************************)
\* lines 246-262: the three mandatory keys
ReadManifestKeys ==
    /\ pc = "start"
    /\ IF \/ IsAbsent(cardsJson.card_index_offset)
          \/ IsAbsent(cardsJson.card_name_offset)
          \/ IsAbsent(cardsJson.card_lookup_address)
       THEN Fail("KeyError")
       ELSE pc' = "keys" /\ err' = err
    /\ UNCHANGED <<file, rom, cardsJson, args, planned>>
    /\ UNCHANGED patchVars
    /\ UNCHANGED invocation

\* lines 265-266
LoadNames ==
    /\ pc = "keys"
    /\ LET r == loadLanguageNames(cardsJson, args.language)
       IN  IF r.kind = "ok" THEN pc' = "named" /\ err' = err
                            ELSE Fail(r.kind)
    /\ UNCHANGED <<file, rom, cardsJson, args, planned>>
    /\ UNCHANGED patchVars
    /\ UNCHANGED invocation

\* line 269
BuildBlob ==
    /\ pc = "named"
    /\ LET r == buildNameBlobAndOffsets(names, remap)
       IN  IF r.kind = "ok" THEN pc' = "built" /\ err' = err
                            ELSE Fail(r.kind)
    /\ UNCHANGED <<file, rom, cardsJson, args, planned>>
    /\ UNCHANGED patchVars
    /\ UNCHANGED invocation

\* lines 287-292: read the file, plan the block count
ReadRom ==
    /\ pc = "built"
    /\ rom' = file
    /\ LET plannedEndFile       == Max(Len(file), fileCardNameOffset + Len(blob))
           plannedEffectiveSize == Max(plannedEndFile - baseOffset, 0)
       IN  planned' = [endFile       |-> plannedEndFile,
                       effectiveSize |-> plannedEffectiveSize,
                       blocks        |-> computeBlockCount(plannedEffectiveSize)]
    /\ pc' = "planned"
    /\ UNCHANGED <<file, cardsJson, args, err>>
    /\ UNCHANGED patchVars
    /\ UNCHANGED invocation

\* lines 301-303
DryRunReturn ==
    /\ pc = "planned"
    /\ args.dry_run
    /\ pc' = "dry"
    /\ UNCHANGED <<file, rom, cardsJson, args, planned, err>>
    /\ UNCHANGED patchVars
    /\ UNCHANGED invocation

\* line 306
InjectBlob ==
    /\ pc = "planned"
    /\ ~args.dry_run
    /\ rom' = injectBlob(rom, fileCardNameOffset, blob)
    /\ pc' = "injected"
    /\ UNCHANGED <<file, cardsJson, args, planned, err>>
    /\ UNCHANGED patchVars
    /\ UNCHANGED invocation

\* line 307
PatchIndex ==
    /\ pc = "injected"
    /\ LET r == patchCardIndexNameOffsets(rom, fileFirstCardOffset, nameOffsets)
       IN  /\ rom' = r.image
           /\ IF r.ok THEN pc' = "indexed" /\ err' = err
                      ELSE Fail("IndexError")
    /\ UNCHANGED <<file, cardsJson, args, planned>>
    /\ UNCHANGED patchVars
    /\ UNCHANGED invocation

\* line 308
SetPointer ==
    /\ pc = "indexed"
    /\ LET r == setCardNamePointer(rom, filePointerOffset, cardNameRomOffset)
       IN  /\ rom' = r.image
           /\ IF r.ok THEN pc' = "pointed" /\ err' = err
                      ELSE Fail("IndexError")
    /\ UNCHANGED <<file, cardsJson, args, planned>>
    /\ UNCHANGED patchVars
    /\ UNCHANGED invocation

\* lines 311-315
UpdateHeader ==
    /\ pc = "pointed"
    /\ LET grown         == ensureRomSize(rom, planned.endFile)
           effectiveSize == Max(Len(grown) - baseOffset, 0)
           r == updateBlockCountHeader(grown, fileBlockCountPos, effectiveSize)
       IN  /\ rom' = r.image
           /\ IF r.ok THEN pc' = "headed" /\ err' = err
                      ELSE Fail("IndexError")
    /\ UNCHANGED <<file, cardsJson, args, planned>>
    /\ UNCHANGED patchVars
    /\ UNCHANGED invocation

\* line 318
WriteRom ==
    /\ pc = "headed"
    /\ file' = rom
    /\ pc' = "done"
    /\ UNCHANGED <<rom, cardsJson, args, planned, err>>
    /\ UNCHANGED patchVars
    /\ UNCHANGED invocation

Next ==
    \/ ReadManifestKeys
    \/ LoadNames
    \/ BuildBlob
    \/ ReadRom
    \/ DryRunReturn
    \/ InjectBlob
    \/ PatchIndex
    \/ SetPointer
    \/ UpdateHeader
    \/ WriteRom

(***************************************************************************)
(* The inputs of a run: the manifest, the arguments and the file.          *)
(***************************************************************************)
\* code points used in the names:  A B C Z  '  right single quote  e-acute
Ch == [A |-> 65, B |-> 66, C |-> 67, Z |-> 90, Apostrophe |-> 39,
       RightQuote |-> 8217, EAcute |-> 233]

Entry(u, h) == [unicode |-> u, hex |-> h]

\* A -> 0x41, B -> 0x42, C -> 0x43
RemapABC ==
    <<Entry(Ch.A, Some(65)), Entry(Ch.B, Some(66)), Entry(Ch.C, Some(67))>>

\* the same with ' -> 0x27
RemapQuote == RemapABC \o <<Entry(Ch.Apostrophe, Some(39))>>

\* two characters with one code
RemapShared ==
    <<Entry(Ch.A, Some(65)), Entry(Ch.B, Some(65)), Entry(Ch.C, Some(67)),
      Entry(Ch.Apostrophe, Some(39))>>

\* a character whose code is the terminator
RemapZero ==
    <<Entry(Ch.A, Some(65)), Entry(Ch.B, Some(0)), Entry(Ch.C, Some(67)),
      Entry(Ch.Apostrophe, Some(39))>>

\* a replaced entry, an entry without "hex", a key that is no character,
\* a key that normalisation never lets through, a code that is no byte
RemapMisc ==
    <<Entry(Ch.A, Some(1)), Entry(Ch.A, Some(65)), Entry(Ch.B, Absent),
      Entry(-1, Some(9)), Entry(Ch.RightQuote, Some(200)),
      Entry(Ch.C, Some(67)), Entry(Ch.Z, Some(300))>>

RemapChoices == {RemapABC, RemapQuote, RemapShared, RemapZero, RemapMisc}

\* "", "A", "BB", "CCC", "A" + right quote, "Z" e-acute "Z"
NameChoices ==
    {<<>>, <<Ch.A>>, <<Ch.B, Ch.B>>, <<Ch.C, Ch.C, Ch.C>>, <<Ch.A, Ch.RightQuote>>,
     <<Ch.Z, Ch.EAcute, Ch.Z>>}

Item(n, nm) == [number |-> n, name |-> nm]

\* the language list that gives record number k the k-th name of nms
ItemsInOrder(nms) == AsSeq([k \in 1..Len(nms) |-> Item(k, nms[k])])

ExampleNames == <<<<Ch.A>>, <<Ch.B, Ch.B>>, <<Ch.C, Ch.C, Ch.C>>>>

\* language lists that are not one item per record, in order
OddItems ==
    LET n == EXPECTED_CARD_COUNT
        full == ItemsInOrder([k \in 1..n |-> ExampleNames[((k - 1) % 3) + 1]])
    IN  { [k \in 1..n |-> full[n + 1 - k]],               \* reversed
          SubSeq(full, 1, n - 1),                           \* last one missing
          <<Item(1, <<Ch.C>>)>> \o full,                   \* number 1 twice
          full \o <<Item(1, <<Ch.C>>)>>,                   \* number 1 twice
          full \o <<Item(n + 1, <<Ch.B>>), Item(0, <<Ch.B>>)>> } \* out of 1..n

Manifest(index, name, lookup, remapList, items) ==
    [card_index_offset   |-> index,
     card_name_offset    |-> name,
     card_lookup_address |-> lookup,
     remap               |-> remapList,
     langs               |-> [l \in {"english"} |-> items]]

Args(language, raw, mcs, offset, dry) ==
    [language |-> language, raw |-> raw, mcs |-> mcs, offset |-> offset,
     dry_run |-> dry]

\* the base-offset selections: none, --raw, --mcs, --offset 16
BaseArgs(language, dry) ==
    { Args(language, FALSE, FALSE, Absent, dry),
      Args(language, TRUE, FALSE, Absent, dry),
      Args(language, FALSE, TRUE, Absent, dry),
      Args(language, FALSE, FALSE, Some(CustomOffset), dry) }

\* the content of a file of n bytes: byte a is (37 a + 11) mod 256
FileOf(n) == AsSeq([i \in 1..n |-> (37 * (i - 1) + 11) % 256])

\* record table, pointer field, name table, in this order or with the name
\* table first
Layouts ==
    { [index |-> Some(8), name |-> Some(40), lookup |-> Some(32)],
      [index |-> Some(24), name |-> Some(8), lookup |-> Some(48)] }

\* a manifest without one of the mandatory keys
BrokenLayouts ==
    { [index |-> Absent, name |-> Some(40), lookup |-> Some(32)],
      [index |-> Some(8), name |-> Absent, lookup |-> Some(32)],
      [index |-> Some(8), name |-> Some(40), lookup |-> Absent] }

\* every triple of names under every remap list, one layout, one file
EncodingRuns ==
    { [json |-> Manifest(Some(8), Some(40), Some(32), r,
                         ItemsInOrder([k \in 1..EXPECTED_CARD_COUNT |-> f[k]])),
       args |-> Args("english", FALSE, FALSE, Absent, FALSE),
       file |-> FileOf(64)] :
         r \in RemapChoices,
         f \in [1..EXPECTED_CARD_COUNT -> NameChoices] }

\* every layout, file length and base offset, with and without --dry-run
LayoutRuns ==
    { [json |-> Manifest(l.index, l.name, l.lookup, RemapABC,
                         ItemsInOrder([k \in 1..EXPECTED_CARD_COUNT |->
                                          ExampleNames[((k - 1) % 3) + 1]])),
       args |-> a,
       file |-> FileOf(n)] :
         l \in Layouts \cup BrokenLayouts,
         a \in BaseArgs("english", TRUE) \cup BaseArgs("english", FALSE),
         n \in FileLengths }

\* language lists out of the ordinary, and a language the manifest lacks
LanguageRuns ==
    { [json |-> Manifest(Some(8), Some(40), Some(32), RemapABC, it),
       args |-> Args(lang, FALSE, FALSE, Absent, FALSE),
       file |-> FileOf(64)] :
         it \in OddItems, lang \in {"english", "german"} }

InitWith(runs) ==
    /\ pc = "start"
    /\ \E run \in runs :
          /\ cardsJson = run.json
          /\ args = run.args
          /\ file = run.file
    /\ rom = <<>>
    /\ planned = [endFile |-> 0, effectiveSize |-> 0, blocks |-> 0]
    /\ err = ""
    /\ manifest = <<>>
    /\ entryIdx = 0
    /\ total = 0
    /\ invocation = 1

Init == InitWith(EncodingRuns \cup LayoutRuns \cup LanguageRuns)

Spec == Init /\ [][Next]_vars

\* runs whose name table is longer than 16-bit offsets reach: a first name
\* of n characters, then two names that are empty or one character
LongNameRuns ==
    { [json |-> Manifest(l.index, l.name, l.lookup, RemapABC,
                         ItemsInOrder(<<Repeat(Ch.A, n)>> \o rest)),
       args |-> Args("english", FALSE, FALSE, Absent, FALSE),
       file |-> FileOf(64)] :
         l \in Layouts,
         n \in LongNameLengths,
         rest \in { [k \in 1..(EXPECTED_CARD_COUNT - 1) |-> <<>>],
                    [k \in 1..(EXPECTED_CARD_COUNT - 1) |-> <<Ch.B>>] } }

InitLong == InitWith(LayoutRuns \cup LongNameRuns)

SpecLong == InitLong /\ [][Next]_vars

\* manifests whose regions lie on top of each other: the name table over the
\* record table and the pointer field; the name table and the pointer field
\* over the header byte
OverlapLayouts ==
    { [index |-> Some(8), name |-> Some(8), lookup |-> Some(16)],
      [index |-> Some(4), name |-> Some(0), lookup |-> Some(0)] }

OverlapRuns ==
    { [json |-> Manifest(l.index, l.name, l.lookup, RemapABC,
                         ItemsInOrder([k \in 1..EXPECTED_CARD_COUNT |->
                                          ExampleNames[((k - 1) % 3) + 1]])),
       args |-> a,
       file |-> FileOf(n)] :
         l \in OverlapLayouts,
         a \in BaseArgs("english", FALSE),
         n \in FileLengths }

InitOverlap == InitWith(LayoutRuns \cup OverlapRuns)

SpecOverlap == InitOverlap /\ [][Next]_vars

\* manifests whose pointer field ends at the end of a 40-byte image, or lies
\* beyond it, while the record table lies inside
PointerBeyondLayouts ==
    { [index |-> Some(0), name |-> Some(24), lookup |-> Some(37)],
      [index |-> Some(0), name |-> Some(24), lookup |-> Some(60)] }

BoundsRuns ==
    { [json |-> Manifest(l.index, l.name, l.lookup, RemapABC,
                         ItemsInOrder([k \in 1..EXPECTED_CARD_COUNT |->
                                          ExampleNames[((k - 1) % 3) + 1]])),
       args |-> Args("english", FALSE, FALSE, Absent, FALSE),
       file |-> FileOf(n)] :
         l \in PointerBeyondLayouts,
         n \in FileLengths }

InitBounds == InitWith(LayoutRuns \cup BoundsRuns)

SpecBounds == InitBounds /\ [][Next]_vars

\* files whose length is no multiple of the block size, under every layout,
\* with and without --dry-run
UnalignedLengths == {30, 59}

PlanRuns ==
    { [json |-> Manifest(l.index, l.name, l.lookup, RemapABC,
                         ItemsInOrder([k \in 1..EXPECTED_CARD_COUNT |->
                                          ExampleNames[((k - 1) % 3) + 1]])),
       args |-> a,
       file |-> FileOf(n)] :
         l \in Layouts \cup OverlapLayouts,
         a \in BaseArgs("english", TRUE) \cup BaseArgs("english", FALSE),
         n \in FileLengths \cup UnalignedLengths }

InitPlan == InitWith(PlanRuns)

SpecPlan == InitPlan /\ [][Next]_vars

\* The tool is run once more, with the same arguments and manifest, on the
\* file that its first run has written: main starts afresh.
RunAgain ==
    /\ pc = "done"
    /\ invocation = 1
    /\ invocation' = 2
    /\ pc' = "start"
    /\ rom' = <<>>
    /\ planned' = [endFile |-> 0, effectiveSize |-> 0, blocks |-> 0]
    /\ UNCHANGED <<file, cardsJson, args, err>>
    /\ UNCHANGED patchVars

NextRerun ==
    \/ Next
    \/ RunAgain

SpecRerun == InitPlan /\ [][NextRerun]_vars

\* a manifest whose name table address is negative: the table ends before
\* the image begins (no header), or inside the container header
NegativeLayouts ==
    { [index |-> Some(8), name |-> Some(-40), lookup |-> Some(32)] }

NegativeRuns ==
    { [json |-> Manifest(l.index, l.name, l.lookup, RemapABC,
                         ItemsInOrder([k \in 1..EXPECTED_CARD_COUNT |->
                                          ExampleNames[((k - 1) % 3) + 1]])),
       args |-> a,
       file |-> FileOf(n)] :
         l \in NegativeLayouts,
         a \in BaseArgs("english", TRUE) \cup BaseArgs("english", FALSE),
         n \in FileLengths }

InitNegative == InitWith(LayoutRuns \cup NegativeRuns)

SpecNegative == InitNegative /\ [][Next]_vars

(***************************************************************************)
(* encodeName on its own, strict or not: args holds the name and the       *)
(* strict flag, the manifest holds the remap list, rom receives the bytes   *)
(* that are returned.                                                      *)
(***************************************************************************)
EncodeCall ==
    /\ pc = "encode_start"
    /\ LET r == encodeName(args.name, remap, args.strict)
       IN  /\ rom' = r.out
           /\ IF r.kind = "ok" THEN pc' = "encoded" /\ err' = err
                               ELSE Fail(r.kind)
    /\ UNCHANGED <<file, cardsJson, args, planned>>
    /\ UNCHANGED patchVars
    /\ UNCHANGED invocation

NextEncode == EncodeCall

\* the characters of the names: two that the remap lists map, one printable
\* character and one other that most of them leave out, one that
\* normalisation replaces
EncodeChars == {Ch.A, Ch.B, Ch.Z, Ch.EAcute, Ch.RightQuote}

\* the names of at most MaxNameLen characters
EncodeNames == UNION { [1..n -> EncodeChars] : n \in 0..MaxNameLen }

InitEncode ==
    /\ pc = "encode_start"
    /\ \E r \in RemapChoices, nm \in EncodeNames, strict \in BOOLEAN :
          /\ cardsJson = Manifest(Absent, Absent, Absent, r, <<>>)
          /\ args = [name |-> AsSeq(nm), strict |-> strict]
    /\ file = <<>>
    /\ rom = <<>>
    /\ planned = [endFile |-> 0, effectiveSize |-> 0, blocks |-> 0]
    /\ err = ""
    /\ manifest = <<>>
    /\ entryIdx = 0
    /\ total = 0
    /\ invocation = 1

SpecEncode == InitEncode /\ [][NextEncode]_vars

(***************************************************************************)
(* rom_patches.py.  The manifest is the sequence of its (key, section)     *)
(* pairs in file order; a section is a sequence of entries.  An entry is   *)
(* [dict, name, active, addr, value]: dict is FALSE for an entry that is   *)
(* no JSON object; name, active and addr are optional; value is the list   *)
(* of integers its tokens denote.                                          *)
(***************************************************************************)
\* str.lower on the keys the manifests of the model use
Lower(k) ==
    CASE k = "English" -> "english"
      [] k = "ENGLISH" -> "english"
      [] OTHER         -> k

\* the section of the exact key, else of the first key that matches without
\* regard to case; kind "KeyError" when there is none
find_language_section(man, lang_key) ==
    LET exact == {i \in 1..Len(man) : man[i].key = lang_key}
        loose == {i \in 1..Len(man) : Lower(man[i].key) = Lower(lang_key)}
        First(S) == CHOOSE i \in S : \A j \in S : i <= j
    IN  IF exact # {} THEN [kind |-> "ok", section |-> man[First(exact)].section]
        ELSE IF loose # {}
        THEN [kind |-> "ok", section |-> man[First(loose)].section]
        ELSE [kind |-> "KeyError", section |-> <<>>]

\* every token is reduced to a byte (& 0xFF)
parse_value_to_bytes(val) == AsSeq([i \in 1..Len(val) |-> val[i] % 256])

\* lines 139-144: --offset is looked at first, then --mcs
patchBaseOffset ==
    IF ~IsAbsent(args.offset) THEN Get(args.offset)
    ELSE IF args.mcs THEN MCS_BASE_OFFSET
    ELSE 0

\* line 147
patches == find_language_section(manifest, args.language).section

\* lines 152-158: main hands apply_patches no dry_run argument, so the
\* parameter has its default
applyDryRun == FALSE

\* lines 95-98: is the entry passed over?
Skipped(entry, include_inactive, only_name) ==
    LET name   == IF IsAbsent(entry.name) THEN "(unnamed)" ELSE Get(entry.name)
        active == IF IsAbsent(entry.active) THEN TRUE ELSE Get(entry.active)
    IN  \/ ~entry.dict
        \/ (~IsAbsent(only_name) /\ Get(only_name) # "" /\ name # Get(only_name))
        \/ (~active /\ ~include_inactive)

\* mutant: a patch may end one byte past the image
ExceedsFileOffByOne(end, image) == end > Len(image) + 1

\* line 103
ExceedsFile(end, image) == end > Len(image)

\* lines 90-110: one turn of the loop of apply_patches.  The result is the
\* image and the total after the entry, or the error it raises.
ApplyOne(image, base_offset, entry, include_inactive, only_name, dry_run, sum) ==
    IF Skipped(entry, include_inactive, only_name)
    THEN [kind |-> "ok", image |-> image, total |-> sum]
    ELSE IF IsAbsent(entry.addr)
    THEN [kind |-> "KeyError", image |-> image, total |-> sum]
    ELSE LET data  == parse_value_to_bytes(entry.value)
             start == base_offset + Get(entry.addr)
             end   == start + Len(data)
         IN  IF ExceedsFile(end, image)
             THEN [kind |-> "ValueError", image |-> image, total |-> sum]
             ELSE [kind  |-> "ok",
                   image |-> IF dry_run THEN image
                             ELSE SliceAssign(image, start, end, data),
                   total |-> sum + Len(data)]

\* lines 146-147
LoadPatches ==
    /\ pc = "patch_start"
    /\ IF find_language_section(manifest, args.language).kind = "ok"
       THEN pc' = "patch_loaded" /\ err' = err
       ELSE Fail("KeyError")
    /\ UNCHANGED <<file, rom, args, manifest, entryIdx, total>>
    /\ UNCHANGED nameVars
    /\ UNCHANGED invocation

\* lines 149-150
ReadFile ==
    /\ pc = "patch_loaded"
    /\ rom' = file
    /\ entryIdx' = 0
    /\ total' = 0
    /\ pc' = "applying"
    /\ UNCHANGED <<file, args, err, manifest>>
    /\ UNCHANGED nameVars
    /\ UNCHANGED invocation

\* lines 90-110, one entry
ApplyEntry ==
    /\ pc = "applying"
    /\ entryIdx < Len(patches)
    /\ LET r == ApplyOne(rom, patchBaseOffset, patches[entryIdx + 1],
                         args.include_inactive, args.only, applyDryRun, total)
       IN  /\ rom' = r.image
           /\ total' = r.total
           /\ IF r.kind = "ok"
              THEN pc' = pc /\ err' = err /\ entryIdx' = entryIdx + 1
              ELSE Fail(r.kind) /\ entryIdx' = entryIdx
    /\ UNCHANGED <<file, args, manifest>>
    /\ UNCHANGED nameVars
    /\ UNCHANGED invocation

\* line 111: the loop is over, apply_patches returns the total
ReturnTotal ==
    /\ pc = "applying"
    /\ entryIdx = Len(patches)
    /\ pc' = "applied"
    /\ UNCHANGED <<file, rom, args, err, manifest, entryIdx, total>>
    /\ UNCHANGED nameVars
    /\ UNCHANGED invocation

\* lines 160-162
PatchDryRunReturn ==
    /\ pc = "applied"
    /\ args.dry_run
    /\ pc' = "dry"
    /\ UNCHANGED <<file, rom, args, err, manifest, entryIdx, total>>
    /\ UNCHANGED nameVars
    /\ UNCHANGED invocation

\* lines 164-167
WriteFile ==
    /\ pc = "applied"
    /\ ~args.dry_run
    /\ file' = rom
    /\ pc' = "done"
    /\ UNCHANGED <<rom, args, err, manifest, entryIdx, total>>
    /\ UNCHANGED nameVars
    /\ UNCHANGED invocation

NextPatches ==
    \/ LoadPatches
    \/ ReadFile
    \/ ApplyEntry
    \/ ReturnTotal
    \/ PatchDryRunReturn
    \/ WriteFile

(***************************************************************************)
(* The inputs of a run of rom_patches.py.                                  *)
(***************************************************************************)
PatchEntry(name, active, addr, value) ==
    [dict |-> TRUE, name |-> name, active |-> active, addr |-> addr,
     value |-> value]

\* two overlapping patches, an inactive one, one near the end of the file,
\* one before the start of the file, one without a name whose tokens are
\* not all bytes, one that is no object, one without "addr"
EntryChoices ==
    { PatchEntry(Some("a"), Some(TRUE), Some(0), <<1, 2>>),
      PatchEntry(Some("b"), Absent, Some(1), <<3, 4, 5>>),
      PatchEntry(Some("c"), Some(FALSE), Some(4), <<6>>),
      PatchEntry(Some("d"), Some(TRUE), Some(5), <<7, 8, 9, 10>>),
      PatchEntry(Some("e"), Some(TRUE), Some(-2), <<11, 12>>),
      PatchEntry(Absent, Some(TRUE), Some(3), <<300, -1>>),
      [dict |-> FALSE, name |-> Absent, active |-> Absent, addr |-> Absent,
       value |-> <<>>],
      PatchEntry(Some("a"), Some(TRUE), Absent, <<1>>) }

\* the patch lists of at most MaxPatches entries
PatchLists ==
    UNION { [1..n -> EntryChoices] : n \in 0..MaxPatches }

PatchArgs(language, mcs, offset, dry, inactive, only) ==
    [language |-> language, raw |-> FALSE, mcs |-> mcs, offset |-> offset,
     dry_run |-> dry, include_inactive |-> inactive, only |-> only]

PatchRuns ==
    { [manifest |-> <<[key |-> "english", section |-> AsSeq(l)]>>,
       args     |-> PatchArgs("english", FALSE, o, dry, inactive, only),
       file     |-> FileOf(n)] :
         l \in PatchLists,
         o \in {Absent, Some(CustomOffset)},
         dry \in BOOLEAN,
         inactive \in BOOLEAN,
         only \in {Absent, Some("a")},
         n \in PatchFileLengths }

\* the language key in another case, a key the manifest lacks, --mcs
PatchKeyRuns ==
    { [manifest |-> <<[key |-> "German", section |-> <<>>],
                      [key |-> k,
                       section |-> <<PatchEntry(Some("a"), Some(TRUE), Some(0),
                                                <<1, 2>>)>>]>>,
       args     |-> PatchArgs(lang, mcs, Absent, FALSE, FALSE, Absent),
       file     |-> FileOf(n)] :
         k \in {"english", "English"},
         lang \in {"english", "ENGLISH", "french"},
         mcs \in BOOLEAN,
         n \in PatchFileLengths \cup {MCS_BASE_OFFSET + 8} }

InitPatches ==
    /\ pc = "patch_start"
    /\ \E run \in PatchRuns \cup PatchKeyRuns :
          /\ manifest = run.manifest
          /\ args = run.args
          /\ file = run.file
    /\ rom = <<>>
    /\ err = ""
    /\ entryIdx = 0
    /\ total = 0
    /\ invocation = 1
    /\ cardsJson = <<>>
    /\ planned = <<>>

SpecPatches == InitPatches /\ [][NextPatches]_vars

(***************************************************************************)
(* The table builder.                                                      *)
(***************************************************************************)
\* main has built the name table
Built ==
    \/ pc \in {"built", "planned", "dry", "injected", "indexed", "pointed",
               "headed", "done"}
    \/ pc = "failed" /\ err = "IndexError"

RECURSIVE SumOfLengths(_, _)
\* the total length of the first k names of nms, one terminator each
SumOfLengths(nms, k) ==
    IF k = 0 THEN 0 ELSE SumOfLengths(nms, k - 1) + Len(nms[k]) + 1

\* the length of the buffer before the bytes of name i (1-based) are
\* appended: the marker, the earlier names and their terminators
BufferLengthBefore(nms, i) == Len(NAME_MARKER) + SumOfLengths(nms, i - 1)

\* C1: the offsets array has one entry per name, its first entry is 0, and
\* every later entry is the length of the buffer (marker, earlier encoded
\* names, their terminators) just before that name's bytes are appended;
\* the name's code bytes and its terminator lie at that position.
C1_OffsetsAreNameStarts ==
    Built =>
        /\ Len(nameOffsets) = Len(names)
        /\ nameOffsets[1] = 0
        /\ \A i \in 2..Len(names) :
              /\ nameOffsets[i] = BufferLengthBefore(names, i)
              /\ Slice(blob, nameOffsets[i], nameOffsets[i] + Len(names[i]))
                    = encodeName(names[i], remap, TRUE).out
              /\ ByteAt(blob, nameOffsets[i] + Len(names[i])) = 0

\* a table is built from a first name of three characters and an empty
\* second name: offsets 0, 6, 7
C1_Witness ==
    /\ pc = "built"
    /\ Len(names[1]) = 3
    /\ Len(names[2]) = 0
    /\ nameOffsets[2] = 6
    /\ nameOffsets[3] = 7

ExampleTable == [c \in {Ch.A, Ch.B, Ch.C} |-> c]

\* C2 as stated: from "A", "BB", "CCC" under A -> 0x41, B -> 0x42,
\* C -> 0x43 with marker FA 21 and block size 8, the unpadded buffer is the
\* 11 bytes FA 21 41 00 42 42 00 43 43 43 00, the offsets are 0, 3, 6, and
\* the table is that buffer followed by fill bytes up to 16 bytes.
C2_ExampleOriginal ==
    (Built /\ names = ExampleNames /\ remap = ExampleTable) =>
        /\ UnpaddedBlob(names, remap).buf
              = <<250, 33, 65, 0, 66, 66, 0, 67, 67, 67, 0>>
        /\ nameOffsets = <<0, 3, 6>>
        /\ blob = <<250, 33, 65, 0, 66, 66, 0, 67, 67, 67, 0,
                    255, 255, 255, 255, 255>>

\* C2, amended: the same buffer and the same 16-byte table, with the
\* offsets 0, 4, 7 ("BB" begins at byte 4 of the buffer, "CCC" at byte 7).
C2_Example ==
    (Built /\ names = ExampleNames /\ remap = ExampleTable) =>
        /\ UnpaddedBlob(names, remap).buf
              = <<250, 33, 65, 0, 66, 66, 0, 67, 67, 67, 0>>
        /\ nameOffsets = <<0, 4, 7>>
        /\ blob = <<250, 33, 65, 0, 66, 66, 0, 67, 67, 67, 0,
                    255, 255, 255, 255, 255>>

C2_Witness ==
    /\ pc = "built"
    /\ names = ExampleNames
    /\ remap = ExampleTable
    /\ NAME_MARKER = <<250, 33>>
    /\ BLOCK_SIZE = 8
    /\ Len(blob) = 16

(***************************************************************************)
(* Reading a table back: the marker is skipped, the next n segments end at *)
(* a 0x00 each, and a code is decoded to a character that has this code.   *)
(***************************************************************************)
\* the index of the first 0x00 of bytes at or after index from
FirstZero(bytes, from) ==
    CHOOSE e \in from..Len(bytes) :
        bytes[e] = 0 /\ \A j \in from..(e - 1) : bytes[j] # 0

RECURSIVE Segments(_, _, _)
Segments(bytes, from, n) ==
    IF n = 0 THEN <<>>
    ELSE LET e == FirstZero(bytes, from)
         IN  <<SubSeq(bytes, from, e - 1)>> \o Segments(bytes, e + 1, n - 1)

HasZeroFrom(bytes, from) == \E e \in from..Len(bytes) : bytes[e] = 0

RECURSIVE HasSegments(_, _, _)
\* are there n terminated segments at or after index from?
HasSegments(bytes, from, n) ==
    n = 0 \/ ( /\ HasZeroFrom(bytes, from)
               /\ HasSegments(bytes, FirstZero(bytes, from) + 1, n - 1) )

InverseRemap(table, code) == CHOOSE c \in DOMAIN table : table[c] = code

DecodeSegment(table, seg) ==
    [i \in 1..Len(seg) |-> InverseRemap(table, seg[i])]

DecodeTable(table, bytes, n) ==
    LET segs == Segments(bytes, Len(NAME_MARKER) + 1, n)
    IN  [k \in 1..n |-> DecodeSegment(table, segs[k])]

Injective(table) ==
    \A c, d \in DOMAIN table : table[c] = table[d] => c = d

\* C3 as stated: reading the built table back gives the names as they
\* were handed to the builder.
C3_RoundTripOriginal ==
    Built => DecodeTable(remap, blob, Len(names)) = names

\* C3, amended: when the remap table gives distinct characters distinct
\* codes and gives no character the code 0x00, reading the built table back
\* gives the names after punctuation normalisation.
C3_RoundTripNormalized ==
    (Built /\ Injective(remap) /\ \A c \in DOMAIN remap : remap[c] # 0) =>
        /\ HasSegments(blob, Len(NAME_MARKER) + 1, Len(names))
        /\ DecodeTable(remap, blob, Len(names))
              = [k \in 1..Len(names) |-> normalizeName(names[k])]

\* a table built from a name with a right single quote, which is stored
\* as the code of the apostrophe
C3_Witness ==
    /\ pc = "built"
    /\ Injective(remap)
    /\ \A c \in DOMAIN remap : remap[c] # 0
    /\ names[2] = <<Ch.A, Ch.RightQuote>>
    /\ nameOffsets[3] = nameOffsets[2] + 3
    /\ ByteAt(blob, nameOffsets[2] + 1) = 39

\* C4: the length of the table is a multiple of the block size; the table is
\* the unpadded buffer followed by fewer than BLOCK_SIZE fill bytes.
C4_BlockMultiple ==
    Built =>
        LET buf == UnpaddedBlob(names, remap).buf
            pad == Len(blob) - Len(buf)
        IN  /\ Len(blob) % BLOCK_SIZE = 0
            /\ 0 <= pad /\ pad < BLOCK_SIZE
            /\ Slice(blob, 0, Len(buf)) = buf
            /\ \A a \in Len(buf)..(Len(blob) - 1) : ByteAt(blob, a) = FILL_BYTE

\* a buffer that ends on a block boundary gets no padding at all
C4_Witness ==
    /\ pc = "built"
    /\ Len(UnpaddedBlob(names, remap).buf) = BLOCK_SIZE
    /\ Len(blob) = BLOCK_SIZE

(***************************************************************************)
(* The patchers.                                                           *)
(***************************************************************************)
\* the 16-bit little-endian value of the two bytes at address a
LE16At(image, a) == ByteAt(image, a) + 256 * ByteAt(image, a + 1)

\* the 32-bit little-endian value of the four bytes at address a
LE32At(image, a) ==
    ByteAt(image, a) + 256 * ByteAt(image, a + 1)
        + 65536 * ByteAt(image, a + 2) + 16777216 * ByteAt(image, a + 3)

\* C5: after the index patcher has run, the two bytes at A + 6 i + 4 and
\* A + 6 i + 5 hold offsets[i] in little-endian order, for every record i,
\* where A is the file address of the first record.
C5_OffsetFieldsHoldOffsets ==
    pc = "indexed" =>
        \A i \in 0..(Len(nameOffsets) - 1) :
            LE16At(rom, fileFirstCardOffset + 6 * i + 4) = nameOffsets[i + 1]

CeilBlocks(size) ==
    CHOOSE k \in 0..size :
        k * BLOCK_SIZE >= size /\ (k = 0 \/ (k - 1) * BLOCK_SIZE < size)

\* C7: after a successful run, the block-count byte at baseOffset + 0x03 is
\* ceil((length of the written image - baseOffset) / BLOCK_SIZE).
C7_BlockCountIsCeil ==
    pc = "done" =>
        ByteAt(file, baseOffset + 3) = CeilBlocks(Len(file) - baseOffset)

\* C8: when the block count exceeds 255 the run fails before the header
\* byte is written and before the file is written: no run reaches the
\* header write or the write-back with a block count above 255.
C8_NoBlockCountOverflow ==
    pc \in {"headed", "done"} =>
        CeilBlocks(Max(Len(rom) - baseOffset, 0)) <= 255

\* C9: when a recorded offset exceeds 0xFFFF the run fails before any byte
\* of the image is changed: no run with such an offset reaches the blob
\* injection or any later step.
C9_NoOffsetOverflow ==
    (Built /\ \E i \in 1..Len(nameOffsets) : nameOffsets[i] > 65535) =>
        pc \notin {"injected", "indexed", "pointed", "headed", "done"}

(***************************************************************************)
(* The generic patch applier.                                              *)
(***************************************************************************)
\* apply_patches is at an entry that it does not skip and whose end,
\* baseOffset + address + length, is greater than the length of the image
CurrentEntryOutOfRange ==
    /\ pc = "applying"
    /\ entryIdx < Len(patches)
    /\ LET entry == patches[entryIdx + 1]
       IN  /\ ~Skipped(entry, args.include_inactive, args.only)
           /\ ~IsAbsent(entry.addr)
           /\ patchBaseOffset + Get(entry.addr) + Len(entry.value) > Len(rom)

\* C10 as stated: when a run fails on a patch that is out of range, no byte
\* of the image has been changed, not even by the patches before it.
C10_OutOfRangeLeavesImage ==
    (pc = "failed" /\ err = "ValueError") => rom = file

\* C10, amended: a patch that is out of range when its turn comes makes the
\* run fail, and the file on disk changes in no step but the write-back that
\* ends a successful run; so a failed run leaves the file as it was (the
\* image in memory may hold the bytes of the patches before the failing one).
C10_OutOfRangeLeavesFile ==
    [][ /\ CurrentEntryOutOfRange => (pc' = "failed" /\ err' = "ValueError")
        /\ pc' # "done" => file' = file ]_vars

\* a run has failed on its second entry; the first one is in the image in
\* memory, and the file is the one the run started from
C10_Witness ==
    /\ pc = "failed"
    /\ err = "ValueError"
    /\ entryIdx = 1
    /\ rom # file
    /\ file = FileOf(Len(file))

(***************************************************************************)
(* The write-back.                                                         *)
(***************************************************************************)
\* the block count of the image in memory does not fit the header byte
BlockCountOverflows ==
    computeBlockCount(Max(Len(rom) - baseOffset, 0)) > 255

\* an offset of the name table does not fit the 16-bit field of a record
OffsetOverflows == \E i \in 1..Len(nameOffsets) : nameOffsets[i] > 65535

\* C11: the file on disk changes in one step only, the write-back that
\* follows the last computation step, and a run in which a step has gone
\* wrong never gets there: in particular not a run whose block count does
\* not fit one byte or whose offsets do not fit 16 bits.
C11_WriteBackOnlyAfterSuccess ==
    [][ file' # file =>
            /\ pc = "headed"
            /\ pc' = "done"
            /\ ~BlockCountOverflows
            /\ ~OffsetOverflows ]_vars

\* the address a lies in the name table, in the offset field of a record,
\* in the pointer field, or is the header byte
ChangedRegion(a) ==
    \/ fileCardNameOffset <= a /\ a < fileCardNameOffset + Len(blob)
    \/ \E i \in 0..(EXPECTED_CARD_COUNT - 1) :
          a \in { fileFirstCardOffset + CARD_ENTRY_SIZE * i + 4,
                  fileFirstCardOffset + CARD_ENTRY_SIZE * i + 5 }
    \/ filePointerOffset <= a /\ a < filePointerOffset + 4
    \/ a = fileBlockCountPos

LanguageItems == cardsJson.langs[args.language]

\* every record number 1..N is the number of exactly one item, and no item
\* has another number
CoversRecordsOnce(items) ==
    /\ \A num \in 1..EXPECTED_CARD_COUNT :
          Cardinality({k \in 1..Len(items) : items[k].number = num}) = 1
    /\ \A k \in 1..Len(items) : items[k].number \in 1..EXPECTED_CARD_COUNT

\* C13: a language list that does not cover every record number 1..N
\* exactly once is rejected before anything is written: a run that gets as
\* far as building the table, or further, has a list that covers every
\* record number exactly once, and its table is built from N names.
C13_ListCoversRecordsOnce ==
    Built =>
        /\ CoversRecordsOnce(LanguageItems)
        /\ Len(names) = EXPECTED_CARD_COUNT

(***************************************************************************)
(* The generic patch applier: --dry-run and the length of the image.       *)
(***************************************************************************)
\* main has read the file and apply_patches is at work or has returned
PatchesUnderWay == pc \in {"applying", "applied", "dry"}

\* C14: in a run with --dry-run the image in memory is never changed and
\* the file is never written: the image is the content of the file as long
\* as the run lasts, and the run never comes to the write-back.
C14_DryRunLeavesBuffer ==
    args.dry_run =>
        /\ PatchesUnderWay => rom = file
        /\ pc # "done"

\* C15: the patch applier never changes the length of the image: while it
\* is at work and after it has returned, the image is as long as the file
\* it was read from.
C15_LengthUnchanged ==
    PatchesUnderWay => Len(rom) = Len(file)

(***************************************************************************)
(* The name encoder.                                                       *)
(***************************************************************************)
\* the characters of nm that the table does not map
Unmapped(nm, table) == {nm[i] : i \in 1..Len(nm)} \ DOMAIN table

RECURSIVE Occurrences(_, _, _)
\* how often ch occurs among the first k characters of nm
Occurrences(nm, ch, k) ==
    IF k = 0 THEN 0
    ELSE Occurrences(nm, ch, k - 1) + (IF nm[k] = ch THEN 1 ELSE 0)

\* every code of the table is a byte
ByteCodes(table) == \A c \in DOMAIN table : table[c] \in 0..255

\* the strict encoder's verdict on the name of the call: either the call
\* fails with the report of every unmapped character of the normalised
\* name and the number of its occurrences in the whole name, or it returns
\* one code per character and nothing else
StrictVerdict ==
    LET nm == normalizeName(args.name)
        r  == encodeName(args.name, remap, TRUE)
    IN  IF Unmapped(nm, remap) # {}
        THEN /\ pc = "failed"
             /\ err = "unmapped"
             /\ DOMAIN r.missing = Unmapped(nm, remap)
             /\ \A ch \in Unmapped(nm, remap) :
                   r.missing[ch] = Occurrences(nm, ch, Len(nm))
        ELSE /\ pc = "encoded"
             /\ Len(rom) = Len(nm)
             /\ \A i \in 1..Len(nm) : rom[i] = remap[nm[i]]

\* C16 as stated: under every remap table, a strict call on a name with an
\* unmapped character fails with the report of all unmapped characters and
\* their counts, and a strict call on a name without one returns one code
\* byte per character and no terminator.
C16_StrictReportOriginal ==
    (pc # "encode_start" /\ args.strict) => StrictVerdict

\* C16, amended: the same under a remap table all of whose codes are bytes
\* (a code outside 0..255 makes the call fail at the first character that
\* has it, whatever else the name contains).
C16_StrictReport ==
    (pc # "encode_start" /\ args.strict /\ ByteCodes(remap)) => StrictVerdict

\* a strict call on Z e-acute Z under a table that maps neither has failed,
\* and the report counts Z twice and e-acute once
C16_Witness ==
    /\ pc = "failed"
    /\ err = "unmapped"
    /\ args.strict
    /\ ByteCodes(remap)
    /\ args.name = <<Ch.Z, Ch.EAcute, Ch.Z>>
    /\ encodeName(args.name, remap, TRUE).missing
          = (Ch.Z :> 2) @@ (Ch.EAcute :> 1)

\* C18 as stated: a call that is not strict never fails, and every
\* character that the table does not map is encoded as 0x20.
C18_PlaceholderOriginal ==
    (pc # "encode_start" /\ ~args.strict) =>
        LET nm == normalizeName(args.name)
        IN  /\ pc = "encoded"
            /\ Len(rom) = Len(nm)
            /\ \A i \in 1..Len(nm) :
                  nm[i] \notin DOMAIN remap => rom[i] = 32

\* C18, amended: under a remap table all of whose codes are bytes, a call
\* that is not strict never fails; a character that the table does not map
\* is encoded as its own ordinal when that lies in 0x20..0x7E and as 0x20
\* otherwise, a mapped character as its code.
C18_Placeholder ==
    (pc # "encode_start" /\ ~args.strict /\ ByteCodes(remap)) =>
        LET nm == normalizeName(args.name)
        IN  /\ pc = "encoded"
            /\ Len(rom) = Len(nm)
            /\ \A i \in 1..Len(nm) :
                  rom[i] = IF nm[i] \in DOMAIN remap THEN remap[nm[i]]
                           ELSE IF nm[i] \in 32..126 THEN nm[i]
                           ELSE 32

\* a call that is not strict has encoded A Z e-acute under a table that
\* maps A only of the three: the code of A, the ordinal of Z, a space
C18_Witness ==
    /\ pc = "encoded"
    /\ ~args.strict
    /\ ByteCodes(remap)
    /\ args.name = <<Ch.A, Ch.Z, Ch.EAcute>>
    /\ Ch.Z \notin DOMAIN remap
    /\ rom = <<65, 90, 32>>

(***************************************************************************)
(* The generic patch applier: what one entry does.                         *)
(***************************************************************************)
\* the entry is one that the applier passes over: it is no object, a name
\* filter is set and its name differs, or it is inactive and
\* --include-inactive is not given
PassedOver(entry) ==
    \/ ~entry.dict
    \/ /\ ~IsAbsent(args.only)
       /\ Get(args.only) # ""
       /\ (IsAbsent(entry.name) \/ Get(entry.name) # Get(args.only))
    \/ /\ ~IsAbsent(entry.active)
       /\ ~Get(entry.active)
       /\ ~args.include_inactive

RECURSIVE SumOfApplied(_, _)
\* the total length of those of the first k entries that are not passed over
SumOfApplied(entries, k) ==
    IF k = 0 THEN 0
    ELSE SumOfApplied(entries, k - 1)
            + (IF PassedOver(entries[k]) THEN 0 ELSE Len(entries[k].value))

\* C17: the applier takes the entries in manifest order.  An entry that it
\* passes over changes nothing; any other entry that it applies leaves its
\* bytes at baseOffset + address .. + length and every other byte of the
\* image where and as it was (so of two overlapping patches the later one
\* stays), and adds its length to the total; the total returned is the sum
\* of the lengths of the entries not passed over.
C17_AppliesInOrder ==
    [][ /\ (pc = "applying" /\ pc' = "applied") =>
              total' = SumOfApplied(patches, Len(patches))
        /\ (pc = "applying" /\ pc' = "applying") =>
              LET entry == patches[entryIdx + 1]
                  data  == [i \in 1..Len(entry.value) |-> entry.value[i] % 256]
                  start == patchBaseOffset + Get(entry.addr)
              IN  /\ entryIdx' = entryIdx + 1
                  /\ IF PassedOver(entry)
                     THEN rom' = rom /\ total' = total
                     ELSE /\ total' = total + Len(data)
                          /\ Len(rom') = Len(rom)
                          /\ \A a \in 0..(Len(rom) - 1) :
                                ByteAt(rom', a) =
                                    IF start <= a /\ a < start + Len(data)
                                    THEN data[a - start + 1]
                                    ELSE ByteAt(rom, a) ]_vars

(***************************************************************************)
(* The index patcher, the pointer patcher and the header patcher.          *)
(***************************************************************************)
\* the addresses the index patcher assigns to
IndexTargets ==
    UNION { { fileFirstCardOffset + CARD_ENTRY_SIZE * i + 4,
              fileFirstCardOffset + CARD_ENTRY_SIZE * i + 5 } :
            i \in 0..(EXPECTED_CARD_COUNT - 1) }

\* the addresses the pointer patcher assigns to
PointerTargets == filePointerOffset..(filePointerOffset + 3)

\* C19: the index patcher and the pointer patcher never change the length
\* of the image, and each of them fails with an index error exactly when
\* one of its targets lies at or beyond the end of the image.
C19_PatchersNeverExtend ==
    [][ /\ pc = "injected" =>
              /\ Len(rom') = Len(rom)
              /\ (pc' = "failed" /\ err' = "IndexError")
                    <=> \E t \in IndexTargets : t >= Len(rom)
        /\ pc = "indexed" =>
              /\ Len(rom') = Len(rom)
              /\ (pc' = "failed" /\ err' = "IndexError")
                    <=> \E t \in PointerTargets : t >= Len(rom) ]_vars

\* the pointer patcher has failed on an image of 40 bytes that holds the
\* whole record table and the first three bytes of the pointer field
C19_Witness ==
    /\ pc = "failed"
    /\ err = "IndexError"
    /\ Len(rom) = 40
    /\ \A t \in IndexTargets : t < Len(rom)
    /\ filePointerOffset + 3 = Len(rom)

\* main has computed the planned effective size
Planned ==
    pc \in {"planned", "dry", "injected", "indexed", "pointed", "headed", "done"}

\* C20: the effective size is the image length minus the base offset, and
\* a run in which that difference is negative fails there: no run goes on
\* with another value in its place.
C20_NoSubstituteForNegative ==
    Planned =>
        /\ planned.endFile - baseOffset >= 0
        /\ planned.effectiveSize = planned.endFile - baseOffset

(***************************************************************************)
(* The plan and the run.                                                   *)
(***************************************************************************)
\* the end of the image that the manifest, the base offset and the file
\* call for: the file's length, or the end of the name table if that lies
\* further on
ExpectedEnd == Max(Len(file), fileCardNameOffset + Len(blob))

====
